---- MODULE Spec2Model ----
(***************************************************************************)
(* Model of seersdk-rs: the per-port connection/multiplexing engine        *)
(* (src/src/port_client.rs, RbkPortClient) on a multi-threaded tokio       *)
(* runtime.  One Port Client, NumCallers tasks that call request(), the    *)
(* owner task that calls dispose(), the reader tasks spawned by connect(), *)
(* and the peer (robot) on the other end of each TCP connection.           *)
(*                                                                         *)
(* Atomicity: a step is the code between two suspension points.  A step    *)
(* that starts with `state.lock().await` is enabled only when the lock is  *)
(* free; the lock stays held across a step boundary only where the code    *)
(* awaits while holding the guard (write_all in do_request, shutdown in    *)
(* reset).  Frames are modelled at frame level: a frame is the record      *)
(* [flow_no, body], where body names the logical request it answers.       *)
(***************************************************************************)
EXTENDS Integers, Sequences, FiniteSets, TLC

\* ---------------------------------------------------------------- bounds
NumCallers == 2
MaxConn == 2
MaxAlloc == 2
MaxOtherAlloc == 2
\* codec runs: frames per byte stream, bytes per partial chunk, and the
\* stream position up to which chunks may be partial
MaxFrames == 2
MaxChunk == 2
MaxPartial == 34
\* requests the facade hands to one Port Client
MaxRouted == 2

\* ------------------------------------------------------ program constants
FlowMod == 512

\* Caller tasks call request(); one more task, the owner of the client,
\* calls dispose().
Callers == 1..NumCallers
Owner == NumCallers + 1
Tasks == 1..(NumCallers + 1)
Conns == 1..MaxConn
\* api_no inputs: one in range, one just above the u16 range.
ApiInputs == {1000, 65536}
\* Upper bound on requests in the wrap-around scenario: one full cycle of
\* the flow-number space plus the request that collides.
WrapAlloc == FlowMod + 1

VARIABLES
    \* ClientState (port_client.rs:23-29)
    connection,       \* Option<Connection>: 0 = None, k = Connection{stream k, read_task k}
    flow_no_counter,  \* u16, kept in 0..FlowMod-1
    response_map,     \* HashMap<u16, String>: set of frames, at most one per flow_no
    disposed,         \* bool
    lock,             \* tokio Mutex around ClientState: 0 = free, t = held by task t
    \* per caller task (locals of request / do_request / connect / reset)
    pc,               \* position of the task
    api_no,           \* argument api_no of the running request
    flow_no,          \* local flow_no (line 94), -1 before allocation
    rid,              \* identity of the logical request (allocation number), 0 = none
    stream,           \* connect()'s local stream (line 168), 0 = none
    wrote,            \* socket the request frame was written to, 0 = not written
    notified,         \* the Notified future of line 130 has been signalled
    result,           \* what request() returns
    \* per background reader task k (spawned together with stream k)
    rpc,              \* position of reader k
    held,             \* the Connection reader k took out of the state (local conn)
    rbuf,             \* frames decoded from the last read, not yet deposited
    \* per TCP socket k
    sock,             \* "none", "open", "peer_closed", "closed" (client side closed)
    reqs,             \* request frames the peer received and has not answered
    inbox,            \* response frames sent by the peer, not yet read
    \* bookkeeping
    allocs,           \* number of next_flow_no() calls so far
    deposited,        \* a frame with the request's flow_no was inserted while it ran
    reset_seen,       \* reset() ran while the request was in flight
    \* the Port Client of another category (client.rs:52-59), in less detail
    other,            \* its ClientState and the lock around it
    \* the protocol codec (protocol.rs) at byte level
    codec,            \* an RbkDecoder, its buffer, the bytes on the wire
    \* the client facade (client.rs)
    routed            \* per Port Client of RbkClient: its port, requests handed to it

\* One Port Client with its callers, readers and sockets.
portVars == <<connection, flow_no_counter, response_map, disposed, lock,
              pc, api_no, flow_no, rid, stream, wrote, notified, result,
              rpc, held, rbuf, sock, reqs, inbox, allocs, deposited, reset_seen>>

vars == <<portVars, other, codec, routed>>

clientVars == <<connection, flow_no_counter, response_map, disposed>>
taskVars == <<pc, api_no, flow_no, rid, stream, wrote, notified, result>>
readerVars == <<rpc, held, rbuf>>
netVars == <<sock, reqs, inbox>>
ghostVars == <<deposited, reset_seen>>

NoFrame == [flow_no |-> -1, body |-> 0]
NoResult == [kind |-> "None", frame |-> NoFrame]
Res(kind) == [kind |-> kind, frame |-> NoFrame]

\* ------------------------------------------------ byte strings, sizes

\* Sizes (usize, u32) are kept in two 16-bit limbs <<hi, lo>>, value
\* hi * 2^16 + lo, so that lengths of 2^31 bytes and more can be computed
\* with; a u32 is its four big-endian bytes, two per limb.
Limb == 256 * 256
Big(n) == <<n \div Limb, n % Limb>>
BigAdd(x, y) == <<x[1] + y[1] + ((x[2] + y[2]) \div Limb), (x[2] + y[2]) % Limb>>
BigSub(x, y) ==
    IF x[2] >= y[2] THEN <<x[1] - y[1], x[2] - y[2]>>
    ELSE <<x[1] - y[1] - 1, x[2] + Limb - y[2]>>
BigLess(x, y) == x[1] < y[1] \/ (x[1] = y[1] /\ x[2] < y[2])
\* `as i32` of a u32 is negative iff the top bit is set.
IsNegI32(x) == x[1] >= Limb \div 2
\* -1 as i32: the bit pattern 0xFFFFFFFF
MinusOne == <<Limb - 1, Limb - 1>>

\* A byte string is a sequence of runs [b, n]: n > 0 copies of the byte b,
\* adjacent runs holding different bytes.
Run(b, n) == [b |-> b, n |-> n]

RECURSIVE BytesLen(_)
BytesLen(bs) == IF bs = <<>> THEN Big(0) ELSE BigAdd(bs[1].n, BytesLen(Tail(bs)))

\* buf.extend_from_slice / put_slice
Cat(x, y) ==
    IF x = <<>> THEN y
    ELSE IF y = <<>> THEN x
    ELSE IF x[Len(x)].b = y[1].b
         THEN SubSeq(x, 1, Len(x) - 1)
              \o <<Run(y[1].b, BigAdd(x[Len(x)].n, y[1].n))>> \o Tail(y)
         ELSE x \o y

\* The byte string of explicitly given bytes.
RECURSIVE Lit(_)
Lit(s) == IF s = <<>> THEN <<>> ELSE Cat(<<Run(s[1], Big(1))>>, Lit(Tail(s)))

\* The first k bytes (split_to), and what is left after them (advance).
RECURSIVE TakeN(_, _)
TakeN(bs, k) ==
    IF bs = <<>> \/ k = Big(0) THEN <<>>
    ELSE IF BigLess(k, bs[1].n) THEN <<Run(bs[1].b, k)>>
    ELSE <<bs[1]>> \o TakeN(Tail(bs), BigSub(k, bs[1].n))

RECURSIVE DropN(_, _)
DropN(bs, k) ==
    IF bs = <<>> \/ k = Big(0) THEN bs
    ELSE IF BigLess(k, bs[1].n) THEN <<Run(bs[1].b, BigSub(bs[1].n, k))>> \o Tail(bs)
    ELSE DropN(Tail(bs), BigSub(k, bs[1].n))

\* The bytes of a (short) byte string, one by one.
RECURSIVE Expand(_)
Expand(bs) == IF bs = <<>> THEN <<>> ELSE <<bs[1].b>> \o Expand(DropN(bs, Big(1)))

\* ------------------------------------------------------- protocol.rs

START_MARK == 90
PROTO_VERSION == 1
HEAD_SIZE == 16
\* RESERVED: six zero bytes
RESERVED == <<0, 0, 0, 0, 0, 0>>

\* String::from_utf8_lossy on the bytes the model uses: ASCII bytes and
\* two-byte sequences (lead C2..DF, continuation 80..BF) are kept; any other
\* byte above 0x7F stands for an invalid sequence of its own and becomes
\* U+FFFD (EF BF BD).
RECURSIVE Utf8Lossy(_)
Utf8Lossy(bs) ==
    IF bs = <<>> THEN <<>>
    ELSE IF bs[1].b < 128 THEN Cat(<<bs[1]>>, Utf8Lossy(Tail(bs)))
    ELSE LET rest == DropN(bs, Big(1))
         IN  IF bs[1].b \in 194..223 /\ rest # <<>> /\ rest[1].b \in 128..191
             THEN Cat(Lit(<<bs[1].b, rest[1].b>>), Utf8Lossy(DropN(rest, Big(1))))
             ELSE Cat(Lit(<<239, 191, 189>>), Utf8Lossy(rest))

\* (mutant) an encoder that writes api_no before the body length
encode_request_ApiBeforeLen(api, body_str, flow) ==
    LET body_len == BytesLen(body_str)
        len32 == <<body_len[1] % Limb, body_len[2]>>
    IN  Cat(Lit(<<START_MARK, PROTO_VERSION,
                  flow \div 256, flow % 256,
                  api \div 256, api % 256,
                  len32[1] \div 256, len32[1] % 256,
                  len32[2] \div 256, len32[2] % 256>> \o RESERVED),
            body_str)

\* encode_request: the 16-byte header, big-endian fields, then the body.
\* body_str.len() as u32 keeps the low 32 bits.
encode_request(api, body_str, flow) ==
    LET body_len == BytesLen(body_str)
        len32 == <<body_len[1] % Limb, body_len[2]>>
    IN  Cat(Lit(<<START_MARK, PROTO_VERSION,
                  flow \div 256, flow % 256,
                  len32[1] \div 256, len32[1] % 256,
                  len32[2] \div 256, len32[2] % 256,
                  api \div 256, api % 256>> \o RESERVED),
            body_str)

\* RbkFrame
Frame(flow, api, body_str) == [flow_no |-> flow, api_no |-> api, body_str |-> body_str]
NoDecoded == [flow_no |-> -1, api_no |-> -1, body_str |-> <<>>]

\* RbkDecoder::new
NewDecoder == [started |-> FALSE, flow_no |-> 0, api_no |-> 0, body_size |-> MinusOne]

\* The scan for the start mark: bytes are consumed up to and including the
\* first 0x5A; without one the whole buffer is consumed.
RECURSIVE SkipToMark(_)
SkipToMark(bs) ==
    IF bs = <<>> THEN <<>>
    ELSE IF bs[1].b = START_MARK THEN bs
    ELSE SkipToMark(Tail(bs))

\* RbkDecoder::decode(&mut self, buf) -> Option<RbkFrame>: the decoder and the
\* buffer after the call, and the frame returned (NoDecoded for None).
decode(dec, buf) ==
    LET marked == IF dec.started THEN buf ELSE SkipToMark(buf)
    IN  IF ~dec.started /\ marked = <<>>
        THEN [dec |-> dec, buf |-> <<>>, frame |-> NoDecoded]
        ELSE
        LET buf1 == IF dec.started THEN buf ELSE DropN(marked, Big(1))
            dec1 == [dec EXCEPT !.started = TRUE]
        IN  IF IsNegI32(dec1.body_size) /\ BigLess(BytesLen(buf1), Big(HEAD_SIZE - 1))
            THEN [dec |-> dec1, buf |-> buf1, frame |-> NoDecoded]
            ELSE
            LET parse == IsNegI32(dec1.body_size)
                h == IF parse THEN Expand(TakeN(buf1, Big(HEAD_SIZE - 1))) ELSE <<>>
                dec2 == IF parse
                        THEN [started |-> TRUE,
                              flow_no |-> h[2] * 256 + h[3],
                              api_no |-> h[8] * 256 + h[9],
                              body_size |-> <<h[4] * 256 + h[5], h[6] * 256 + h[7]>>]
                        ELSE dec1
                buf2 == IF parse THEN DropN(buf1, Big(HEAD_SIZE - 1)) ELSE buf1
            IN  \* buf.remaining() < self.body_size as usize: a negative i32
                \* becomes a usize above any buffer length
                IF IsNegI32(dec2.body_size) \/ BigLess(BytesLen(buf2), dec2.body_size)
                THEN [dec |-> dec2, buf |-> buf2, frame |-> NoDecoded]
                ELSE [dec |-> NewDecoder,
                      buf |-> DropN(buf2, dec2.body_size),
                      frame |-> Frame(dec2.flow_no, dec2.api_no,
                                      Utf8Lossy(TakeN(buf2, dec2.body_size)))]

\* `while let Some(frame) = decoder.decode(&mut buf)`: the frames a buffer
\* yields when decode is called until it returns None.
RECURSIVE DecodeAll(_, _)
DecodeAll(dec, buf) ==
    LET r == decode(dec, buf)
    IN  IF r.frame = NoDecoded THEN <<>>
        ELSE <<r.frame>> \o DecodeAll(r.dec, r.buf)

\* The bytes of a list of frames, each encoded by encode_request.
RECURSIVE WireOf(_)
WireOf(frames) ==
    IF frames = <<>> THEN <<>>
    ELSE Cat(encode_request(frames[1].api_no, frames[1].body_str, frames[1].flow_no),
             WireOf(Tail(frames)))

\* A fresh decoder with an empty buffer, and what the peer will send: junk
\* bytes, then the frames, not yet encoded; at_once records that the whole
\* stream arrived in a single read.
CodecStartAfter(junk, frames) ==
    [junk |-> junk, frames |-> frames, wire |-> <<>>,
     dec |-> NewDecoder, buf |-> <<>>, out |-> <<>>, phase |-> "encode",
     at_once |-> FALSE]

\* The same with nothing before the first frame.
CodecStart(frames) == CodecStartAfter(<<>>, frames)

\* ----------------------------------------------------------- client.rs

STATE_PORT == 19204
CONTROL_PORT == 19205
NAV_PORT == 19206
CONFIG_PORT == 19207
KERNEL_PORT == 19208
MISC_PORT == 19210

\* The variants of ApiRequest and the Port Client fields of RbkClient.
Categories == {"State", "Control", "Nav", "Config", "Kernel", "Misc"}
ClientFields ==
    {"config_client", "misc_client", "state_client", "control_client",
     "nav_client", "kernel_client"}

\* RbkClient::new: each field's Port Client is built with its port; no
\* request has been handed to any of them.
ClientNew ==
    [f \in ClientFields |->
        [port |-> CASE f = "config_client" -> CONFIG_PORT
                    [] f = "misc_client" -> MISC_PORT
                    [] f = "state_client" -> STATE_PORT
                    [] f = "control_client" -> CONTROL_PORT
                    [] f = "nav_client" -> NAV_PORT
                    [] f = "kernel_client" -> KERNEL_PORT,
         requests |-> 0]]

\* (mutant) a match that sends Misc requests to the kernel client
RouteMiscToKernel(cat) ==
    CASE cat = "State" -> "state_client"
      [] cat = "Control" -> "control_client"
      [] cat = "Nav" -> "nav_client"
      [] cat = "Config" -> "config_client"
      [] cat = "Misc" -> "kernel_client"
      [] cat = "Kernel" -> "kernel_client"

\* The match of RbkClient::request: the field whose Port Client gets a
\* request of the category.
Route(cat) ==
    CASE cat = "State" -> "state_client"
      [] cat = "Control" -> "control_client"
      [] cat = "Nav" -> "nav_client"
      [] cat = "Config" -> "config_client"
      [] cat = "Misc" -> "misc_client"
      [] cat = "Kernel" -> "kernel_client"

\* The state RbkPortClient::new gives the other Port Client.
OtherInit ==
    [connection |-> 0, flow_no_counter |-> 0, response_map |-> {},
     disposed |-> FALSE, lock |-> 0]

\* RbkPortClient::new (port_client.rs:37-49); no task has called anything,
\* no socket exists, no reader has been spawned.
PortInit ==
    /\ connection = 0
    /\ flow_no_counter = 0
    /\ response_map = {}
    /\ disposed = FALSE
    /\ lock = 0
    /\ pc = [t \in Tasks |-> "idle"]
    /\ api_no = [t \in Tasks |-> 0]
    /\ flow_no = [t \in Tasks |-> -1]
    /\ rid = [t \in Tasks |-> 0]
    /\ stream = [t \in Tasks |-> 0]
    /\ wrote = [t \in Tasks |-> 0]
    /\ notified = [t \in Tasks |-> FALSE]
    /\ result = [t \in Tasks |-> NoResult]
    /\ rpc = [k \in Conns |-> "off"]
    /\ held = [k \in Conns |-> 0]
    /\ rbuf = [k \in Conns |-> <<>>]
    /\ sock = [k \in Conns |-> "none"]
    /\ reqs = [k \in Conns |-> {}]
    /\ inbox = [k \in Conns |-> <<>>]
    /\ allocs = 0
    /\ deposited = [t \in Tasks |-> FALSE]
    /\ reset_seen = [t \in Tasks |-> FALSE]

Init ==
    /\ other = OtherInit
    /\ routed = ClientNew
    /\ codec = CodecStart(<<>>)
    /\ PortInit

\* ------------------------------------------------------------- helpers

\* ClientState::next_flow_no (port_client.rs:253-256)
\* (mutant) an allocation that advances the counter by two
NextFlowNoSkipsOne(counter) == (counter + 2) % FlowMod
NextFlowNo(counter) == (counter + 1) % FlowMod

\* The api_no range check of do_request (port_client.rs:98)
\* (mutant) a range check without the upper bound
BadApiNoOnlyNegative(a) == a < 0
BadApiNo(a) == a < 0 \/ a > 65535

\* HashMap::insert / contains / get / remove on response_map, keyed by flow_no
MapInsert(m, f) == {e \in m : e.flow_no # f.flow_no} \cup {f}
MapHas(m, k) == \E e \in m : e.flow_no = k
\* (mutant) get that ignores the key
MapGetAnyKey(m, k) == CHOOSE e \in m : TRUE
MapGet(m, k) == CHOOSE e \in m : e.flow_no = k
\* (mutant) remove that empties the table
MapRemoveAll(m, k) == {}
MapRemove(m, k) == {e \in m : e.flow_no # k}

\* What a signalled waiter does once it holds the lock (port_client.rs:
\* 133-150): disposed first, then the table lookup, else loop.
\* (mutant) returns without looking at the table
WakeOutcomeNoLookup(disp, has) == IF disp THEN "Disposed" ELSE "Ok"
WakeOutcome(disp, has) == IF disp THEN "Disposed" ELSE IF has THEN "Ok" ELSE "Loop"

\* (mutant) notify_one: signals a single registered waiter
NotifyOneWaiter ==
    [t \in Tasks |-> notified[t] \/
        (pc[t] = "waiting" /\ \A u \in Tasks : pc[u] = "waiting" => t <= u)]

\* Notify::notify_waiters: signals every Notified future that exists now
\* (a task at "waiting" has created its future, port_client.rs:130).
NotifyWaiters == [t \in Tasks |-> notified[t] \/ pc[t] = "waiting"]

\* request() after do_request returned (port_client.rs:57-67): Ok(res) with
\* res.kind != Ok goes on to reset(); Ok results and Err(_) return at once.
\* (mutant) a reset after every failure, Err(_) included
NeedsResetAlsoOnErr(res) == res.kind # "Ok"
NeedsReset(res) == res.kind \notin {"Ok", "Err"}
AfterDoRequest(res) == IF NeedsReset(res) THEN "reset" ELSE "done"

\* Dropping or shutting down the client side of the sockets in S.
CloseSocks(S) ==
    /\ sock' = [k \in Conns |-> IF k \in S THEN "closed" ELSE sock[k]]
    /\ reqs' = [k \in Conns |-> IF k \in S THEN {} ELSE reqs[k]]
    /\ inbox' = [k \in Conns |-> IF k \in S THEN <<>> ELSE inbox[k]]

Wait == {"wait_reg", "waiting"}

\* A request is in flight: its frame is written, its result not yet returned.
InFlight(t) == pc[t] \in Wait /\ wrote[t] # 0

\* The request has left do_request's wait loop (or never ran): bookkeeping off.
ClearGhost(t) ==
    /\ deposited' = [deposited EXCEPT ![t] = FALSE]
    /\ reset_seen' = [reset_seen EXCEPT ![t] = FALSE]

Running(k) == rpc[k] \in {"top", "reading", "deposit", "putback"}

\* do_request from the flow-number allocation to the start of the write
\* (port_client.rs:94-112), entered with the state lock held by task t.
AllocateAndSend(t, a) ==
    LET f == NextFlowNo(flow_no_counter) IN
    /\ flow_no_counter' = f
    /\ allocs' = allocs + 1
    /\ flow_no' = [flow_no EXCEPT ![t] = f]
    /\ rid' = [rid EXCEPT ![t] = allocs + 1]
    /\ IF BadApiNo(a)
       THEN /\ result' = [result EXCEPT ![t] = Res("BadApiNo")]
            /\ pc' = [pc EXCEPT ![t] = AfterDoRequest(Res("BadApiNo"))]
            /\ lock' = 0
       ELSE /\ result' = [result EXCEPT ![t] = NoResult]
            /\ IF connection # 0
               THEN pc' = [pc EXCEPT ![t] = "writing"] /\ lock' = t
               ELSE pc' = [pc EXCEPT ![t] = "wait_reg"] /\ lock' = 0

\* ------------------------------------------------- request / do_request

\* request() is called; do_request takes the lock, checks disposed and the
\* connection (port_client.rs:76-92) and, with a connection, goes on to
\* allocate and write (94-112).
ReqStart(t, a) ==
    /\ pc[t] \in {"idle", "done"}
    /\ lock = 0
    /\ api_no' = [api_no EXCEPT ![t] = IF ~disposed /\ connection = 0 THEN a ELSE 0]
    /\ wrote' = [wrote EXCEPT ![t] = 0]
    /\ notified' = [notified EXCEPT ![t] = FALSE]
    /\ stream' = stream
    /\ IF disposed
       THEN /\ result' = [result EXCEPT ![t] = Res("Disposed")]
            /\ pc' = [pc EXCEPT ![t] = AfterDoRequest(Res("Disposed"))]
            /\ flow_no' = [flow_no EXCEPT ![t] = -1]
            /\ rid' = [rid EXCEPT ![t] = 0]
            /\ UNCHANGED <<flow_no_counter, allocs, lock>>
       ELSE IF connection = 0
       THEN /\ result' = [result EXCEPT ![t] = NoResult]
            /\ pc' = [pc EXCEPT ![t] = "connecting"]
            /\ flow_no' = [flow_no EXCEPT ![t] = -1]
            /\ rid' = [rid EXCEPT ![t] = 0]
            /\ UNCHANGED <<flow_no_counter, allocs, lock>>
       ELSE AllocateAndSend(t, a)
    /\ UNCHANGED <<connection, response_map, disposed>>
    /\ UNCHANGED <<readerVars, netVars>>
    /\ ClearGhost(t)
    /\ UNCHANGED <<other, codec, routed>>

\* connect(): TcpStream::connect succeeds and the reader is spawned
\* (port_client.rs:167-176).  The new socket takes the next unused id.
ConnectOk(t) ==
    /\ pc[t] = "connecting"
    /\ \E k \in Conns :
        /\ sock[k] = "none"
        /\ \A j \in Conns : j < k => sock[j] # "none"
        /\ sock' = [sock EXCEPT ![k] = "open"]
        /\ rpc' = [rpc EXCEPT ![k] = "top"]
        /\ stream' = [stream EXCEPT ![t] = k]
    /\ pc' = [pc EXCEPT ![t] = "install"]
    /\ UNCHANGED <<clientVars, lock, api_no, flow_no, rid, wrote, notified,
                   result, held, rbuf, reqs, inbox, allocs>>
    /\ UNCHANGED ghostVars
    /\ UNCHANGED <<other, codec, routed>>

\* connect(): the connect timeout expires or the OS refuses (168-171);
\* do_request returns Err through `?` and request() returns it unchanged.
ConnectFail(t) ==
    /\ pc[t] = "connecting"
    /\ result' = [result EXCEPT ![t] = Res("Err")]
    /\ pc' = [pc EXCEPT ![t] = AfterDoRequest(Res("Err"))]
    /\ api_no' = [api_no EXCEPT ![t] = 0]
    /\ UNCHANGED <<clientVars, lock, flow_no, rid, stream, wrote,
                   notified, readerVars, netVars, allocs>>
    /\ UNCHANGED ghostVars
    /\ UNCHANGED <<other, codec, routed>>

\* connect(): lock, store the connection, clear disposed (178-182).  A
\* connection already stored is dropped by the assignment: its stream is
\* closed, its JoinHandle is dropped (which detaches the task).
Install(t) ==
    /\ pc[t] = "install"
    /\ lock = 0
    /\ connection' = stream[t]
    /\ disposed' = FALSE
    /\ CloseSocks(IF connection # 0 THEN {connection} ELSE {})
    /\ stream' = [stream EXCEPT ![t] = 0]
    /\ pc' = [pc EXCEPT ![t] = "relock"]
    /\ UNCHANGED <<flow_no_counter, response_map, lock, api_no, flow_no, rid,
                   wrote, notified, result, readerVars, allocs>>
    /\ UNCHANGED ghostVars
    /\ UNCHANGED <<other, codec, routed>>

\* (mutant) do_request going on after connect() without taking the lock
RelockWithoutLock(t) ==
    /\ pc[t] = "relock"
    /\ AllocateAndSend(t, api_no[t])
    /\ api_no' = [api_no EXCEPT ![t] = 0]
    /\ UNCHANGED <<connection, response_map, disposed, stream, wrote,
                   notified, readerVars, netVars>>
    /\ UNCHANGED ghostVars
    /\ UNCHANGED <<other, codec, routed>>

\* do_request after connect(): lock again (91), allocate, validate, start
\* the write if a connection is stored, skip it otherwise (94-124).
Relock(t) ==
    /\ pc[t] = "relock"
    /\ lock = 0
    /\ AllocateAndSend(t, api_no[t])
    /\ api_no' = [api_no EXCEPT ![t] = 0]
    /\ UNCHANGED <<connection, response_map, disposed, stream, wrote,
                   notified, readerVars, netVars>>
    /\ UNCHANGED ghostVars
    /\ UNCHANGED <<other, codec, routed>>

\* (mutant) write_all completes and the guard is kept through the wait
WriteOkKeepsLock(t) ==
    /\ pc[t] = "writing"
    /\ lock = t
    /\ reqs' = [reqs EXCEPT ![connection] =
                  IF sock[connection] = "open"
                  THEN @ \cup {[flow_no |-> flow_no[t], body |-> rid[t]]}
                  ELSE @]
    /\ wrote' = [wrote EXCEPT ![t] = connection]
    /\ lock' = lock
    /\ pc' = [pc EXCEPT ![t] = "wait_reg"]
    /\ UNCHANGED <<clientVars, api_no, flow_no, rid, stream, notified, result,
                   readerVars, sock, inbox, allocs>>
    /\ UNCHANGED ghostVars
    /\ UNCHANGED <<other, codec, routed>>

\* write_all completes (112); the guard is dropped (124).  On a socket the
\* peer has closed the bytes may still be accepted locally and are lost.
WriteOk(t) ==
    /\ pc[t] = "writing"
    /\ lock = t
    /\ reqs' = [reqs EXCEPT ![connection] =
                  IF sock[connection] = "open"
                  THEN @ \cup {[flow_no |-> flow_no[t], body |-> rid[t]]}
                  ELSE @]
    /\ wrote' = [wrote EXCEPT ![t] = connection]
    /\ lock' = 0
    /\ pc' = [pc EXCEPT ![t] = "wait_reg"]
    /\ UNCHANGED <<clientVars, api_no, flow_no, rid, stream, notified, result,
                   readerVars, sock, inbox, allocs>>
    /\ UNCHANGED ghostVars
    /\ UNCHANGED <<other, codec, routed>>

\* write_all fails (112-121): only on a socket the peer has closed.
WriteErr(t) ==
    /\ pc[t] = "writing"
    /\ lock = t
    /\ sock[connection] = "peer_closed"
    /\ result' = [result EXCEPT ![t] = Res("WriteError")]
    /\ pc' = [pc EXCEPT ![t] = AfterDoRequest(Res("WriteError"))]
    /\ lock' = 0
    /\ UNCHANGED <<clientVars, api_no, flow_no, rid, stream, wrote, notified,
                   readerVars, netVars, allocs>>
    /\ UNCHANGED ghostVars
    /\ UNCHANGED <<other, codec, routed>>

\* The wait loop creates its Notified future: notify.notified() (130).
Register(t) ==
    /\ pc[t] = "wait_reg"
    /\ notified' = [notified EXCEPT ![t] = FALSE]
    /\ pc' = [pc EXCEPT ![t] = "waiting"]
    /\ UNCHANGED <<clientVars, lock, api_no, flow_no, rid, stream, wrote,
                   result, readerVars, netVars, allocs>>
    /\ UNCHANGED ghostVars
    /\ UNCHANGED <<other, codec, routed>>

\* The waiter was signalled: lock, check disposed, look up its flow_no
\* (131-151); with neither it loops back to a new notified().
Wake(t) ==
    LET has == MapHas(response_map, flow_no[t])
        out == WakeOutcome(disposed, has)
        res == [kind |-> out,
                frame |-> IF out = "Ok" /\ has
                          THEN MapGet(response_map, flow_no[t]) ELSE NoFrame]
    IN
    /\ pc[t] = "waiting"
    /\ notified[t]
    /\ lock = 0
    /\ IF out = "Loop"
       THEN /\ pc' = [pc EXCEPT ![t] = "wait_reg"]
            /\ UNCHANGED <<result, wrote, response_map, ghostVars>>
       ELSE /\ result' = [result EXCEPT ![t] = res]
            /\ pc' = [pc EXCEPT ![t] = AfterDoRequest(res)]
            /\ wrote' = [wrote EXCEPT ![t] = 0]
            /\ response_map' = IF out = "Ok"
                               THEN MapRemove(response_map, flow_no[t])
                               ELSE response_map
            /\ ClearGhost(t)
    /\ notified' = [notified EXCEPT ![t] = FALSE]
    /\ UNCHANGED <<connection, flow_no_counter, disposed, lock, api_no, flow_no,
                   rid, stream, readerVars, netVars, allocs>>
    /\ UNCHANGED <<other, codec, routed>>

\* The timeout around the wait loop elapses (128, 153-163).
Timeout(t) ==
    /\ pc[t] \in {"wait_reg", "waiting"}
    /\ result' = [result EXCEPT ![t] = Res("Timeout")]
    /\ pc' = [pc EXCEPT ![t] = AfterDoRequest(Res("Timeout"))]
    /\ notified' = [notified EXCEPT ![t] = FALSE]
    /\ wrote' = [wrote EXCEPT ![t] = 0]
    /\ UNCHANGED <<clientVars, lock, api_no, flow_no, rid, stream,
                   readerVars, netVars, allocs>>
    /\ ClearGhost(t)
    /\ UNCHANGED <<other, codec, routed>>


\* ------------------------------------------------------ reset / dispose

\* (mutant) a reset that leaves the disposed flag as it was
ResetBodyKeepsDisposed(t) ==
    /\ lock = 0
    /\ response_map' = {}
    /\ disposed' = disposed
    /\ connection' = 0
    /\ reset_seen' = [u \in Tasks |-> reset_seen[u] \/ InFlight(u)]
    /\ deposited' = deposited
    /\ IF connection # 0
       THEN /\ rpc' = [rpc EXCEPT ![connection] = IF Running(connection) THEN "aborted" ELSE @]
            /\ held' = [held EXCEPT ![connection] = 0]
            /\ rbuf' = [rbuf EXCEPT ![connection] = <<>>]
            /\ CloseSocks(IF Running(connection) /\ held[connection] # 0
                          THEN {held[connection]} ELSE {})
            /\ stream' = [stream EXCEPT ![t] = connection]
            /\ lock' = t
            /\ pc' = [pc EXCEPT ![t] = "shutdown"]
            /\ notified' = notified
       ELSE /\ notified' = NotifyWaiters
            /\ lock' = 0
            /\ pc' = [pc EXCEPT ![t] = "done"]
            /\ UNCHANGED <<stream, readerVars, netVars>>

\* reset() up to the shutdown (port_client.rs:235-241), entered with the
\* lock free: clear the table, set disposed, take the stored connection;
\* with one, abort its read_task and start shutting its stream down (the
\* guard stays held across the await); with none, notify and return (244).
\* An aborted reader drops the Connection it holds locally, if any.
ResetBody(t) ==
    /\ lock = 0
    /\ response_map' = {}
    /\ disposed' = TRUE
    /\ connection' = 0
    /\ reset_seen' = [u \in Tasks |-> reset_seen[u] \/ InFlight(u)]
    /\ deposited' = deposited
    /\ IF connection # 0
       THEN /\ rpc' = [rpc EXCEPT ![connection] = IF Running(connection) THEN "aborted" ELSE @]
            /\ held' = [held EXCEPT ![connection] = 0]
            /\ rbuf' = [rbuf EXCEPT ![connection] = <<>>]
            /\ CloseSocks(IF Running(connection) /\ held[connection] # 0
                          THEN {held[connection]} ELSE {})
            /\ stream' = [stream EXCEPT ![t] = connection]
            /\ lock' = t
            /\ pc' = [pc EXCEPT ![t] = "shutdown"]
            /\ notified' = notified
       ELSE /\ notified' = NotifyWaiters
            /\ lock' = 0
            /\ pc' = [pc EXCEPT ![t] = "done"]
            /\ UNCHANGED <<stream, readerVars, netVars>>

\* request() calls reset() after a result whose kind is not Ok (60-65).
Reset1(t) ==
    /\ pc[t] = "reset"
    /\ ResetBody(t)
    /\ UNCHANGED <<flow_no_counter, api_no, flow_no, rid, wrote, result,
                   allocs>>
    /\ UNCHANGED <<other, codec, routed>>

\* dispose() is called from outside (247-249).
Dispose(t) ==
    /\ pc[t] \in {"idle", "done"}
    /\ ResetBody(t)
    /\ result' = [result EXCEPT ![t] = NoResult]
    /\ flow_no' = [flow_no EXCEPT ![t] = -1]
    /\ rid' = [rid EXCEPT ![t] = 0]
    /\ wrote' = [wrote EXCEPT ![t] = 0]
    /\ UNCHANGED <<flow_no_counter, api_no, allocs>>
    /\ UNCHANGED <<other, codec, routed>>

\* (mutant) a reset whose guard is never released
Reset2KeepsLock(t) ==
    /\ pc[t] = "shutdown"
    /\ lock = t
    /\ CloseSocks({stream[t]})
    /\ stream' = [stream EXCEPT ![t] = 0]
    /\ notified' = NotifyWaiters
    /\ lock' = lock
    /\ pc' = [pc EXCEPT ![t] = "done"]
    /\ UNCHANGED <<clientVars, api_no, flow_no, rid, wrote, result,
                   readerVars, allocs>>
    /\ UNCHANGED ghostVars
    /\ UNCHANGED <<other, codec, routed>>

\* reset(): the shutdown completes, the Connection is dropped, the waiters
\* are notified and the guard is released (241-245).
Reset2(t) ==
    /\ pc[t] = "shutdown"
    /\ lock = t
    /\ CloseSocks({stream[t]})
    /\ stream' = [stream EXCEPT ![t] = 0]
    /\ notified' = NotifyWaiters
    /\ lock' = 0
    /\ pc' = [pc EXCEPT ![t] = "done"]
    /\ UNCHANGED <<clientVars, api_no, flow_no, rid, wrote, result,
                   readerVars, allocs>>
    /\ UNCHANGED ghostVars
    /\ UNCHANGED <<other, codec, routed>>

\* The RbkClient is dropped (client.rs:147-155): Drop::drop does nothing,
\* then the fields are dropped.  request() borrows the client, so no request
\* is in progress.  A Port Client has no Drop of its own: dropping it drops
\* its Arc of the state (port_client.rs:20); every live reader owns another
\* one (state_clone, 173-175), so the ClientState, and with it the stored
\* Connection, is dropped only if no reader is alive.  Nothing aborts a
\* reader.
DropClient ==
    /\ pc[Owner] \in {"idle", "done"}
    /\ \A t \in Callers : pc[t] \in {"idle", "done"}
    /\ pc' = [pc EXCEPT ![Owner] = "dropped"]
    /\ IF \A k \in Conns : ~Running(k)
       THEN /\ connection' = 0
            /\ CloseSocks(IF connection # 0 THEN {connection} ELSE {})
       ELSE UNCHANGED <<connection, netVars>>
    /\ UNCHANGED <<flow_no_counter, response_map, disposed, lock, api_no,
                   flow_no, rid, stream, wrote, notified, result, readerVars,
                   allocs, ghostVars, other, codec, routed>>

\* ------------------------------------------------------------ read_loop

\* Loop top (port_client.rs:192-204): lock; no stored connection: break;
\* otherwise take it out of the state and release the lock.
ReaderTake(k) ==
    /\ rpc[k] = "top"
    /\ lock = 0
    /\ IF connection = 0
       THEN /\ rpc' = [rpc EXCEPT ![k] = "exited"]
            /\ UNCHANGED <<connection, held>>
       ELSE /\ rpc' = [rpc EXCEPT ![k] = "reading"]
            /\ held' = [held EXCEPT ![k] = connection]
            /\ connection' = 0
    /\ UNCHANGED <<flow_no_counter, response_map, disposed, lock, taskVars, rbuf,
                   netVars, allocs>>
    /\ UNCHANGED ghostVars
    /\ UNCHANGED <<other, codec, routed>>

\* read() returns n > 0 bytes (207, 212-216): a non-empty prefix of the
\* frames the peer has sent is decoded.
ReaderRead(k) ==
    /\ rpc[k] = "reading"
    /\ \E n \in 1..Len(inbox[held[k]]) :
        /\ rbuf' = [rbuf EXCEPT ![k] = SubSeq(inbox[held[k]], 1, n)]
        /\ inbox' = [inbox EXCEPT ![held[k]] = SubSeq(@, n + 1, Len(@))]
    /\ rpc' = [rpc EXCEPT ![k] = "deposit"]
    /\ UNCHANGED <<clientVars, lock, taskVars, held, sock, reqs, allocs>>
    /\ UNCHANGED ghostVars
    /\ UNCHANGED <<other, codec, routed>>

\* (mutant) a reader that stores the connection again before it exits
ReaderEofPutsBack(k) ==
    /\ rpc[k] = "reading"
    /\ sock[held[k]] = "peer_closed"
    /\ inbox[held[k]] = <<>>
    /\ rpc' = [rpc EXCEPT ![k] = "exited"]
    /\ held' = [held EXCEPT ![k] = 0]
    /\ connection' = held[k]
    /\ UNCHANGED <<flow_no_counter, response_map, disposed, netVars>>
    /\ UNCHANGED <<lock, taskVars, rbuf, allocs>>
    /\ UNCHANGED ghostVars
    /\ UNCHANGED <<other, codec, routed>>

\* read() returns 0 or an error (208-211, 226-229): the loop breaks and the
\* Connection held locally is dropped.
ReaderEof(k) ==
    /\ rpc[k] = "reading"
    /\ sock[held[k]] = "peer_closed"
    /\ inbox[held[k]] = <<>>
    /\ rpc' = [rpc EXCEPT ![k] = "exited"]
    /\ held' = [held EXCEPT ![k] = 0]
    /\ CloseSocks({held[k]})
    /\ UNCHANGED <<clientVars, lock, taskVars, rbuf, allocs>>
    /\ UNCHANGED ghostVars
    /\ UNCHANGED <<other, codec, routed>>

\* One round of the decode loop (216-220): lock, insert, notify_waiters.
ReaderDeposit(k) ==
    /\ rpc[k] = "deposit"
    /\ lock = 0
    /\ response_map' = MapInsert(response_map, Head(rbuf[k]))
    /\ deposited' = [t \in Tasks |-> deposited[t] \/
                        (pc[t] \in {"writing", "wait_reg", "waiting"}
                         /\ flow_no[t] = Head(rbuf[k]).flow_no)]
    /\ reset_seen' = reset_seen
    /\ notified' = NotifyWaiters
    /\ rbuf' = [rbuf EXCEPT ![k] = Tail(@)]
    /\ rpc' = [rpc EXCEPT ![k] = IF Tail(rbuf[k]) = <<>> THEN "putback" ELSE "deposit"]
    /\ UNCHANGED <<connection, flow_no_counter, disposed, lock, pc, api_no,
                   flow_no, rid, stream, wrote, result, held, netVars, allocs>>
    /\ UNCHANGED <<other, codec, routed>>

\* Put the stream back (223-224).  A connection stored meanwhile is dropped
\* by the assignment.
ReaderPutBack(k) ==
    /\ rpc[k] = "putback"
    /\ lock = 0
    /\ connection' = held[k]
    /\ held' = [held EXCEPT ![k] = 0]
    /\ rpc' = [rpc EXCEPT ![k] = "top"]
    /\ CloseSocks(IF connection # 0 THEN {connection} ELSE {})
    /\ UNCHANGED <<flow_no_counter, response_map, disposed, lock, taskVars, rbuf,
                   allocs>>
    /\ UNCHANGED ghostVars
    /\ UNCHANGED <<other, codec, routed>>

\* ----------------------------------------------------------------- peer

\* The robot answers one of the request frames it received, in any order,
\* echoing the flow number.
PeerAnswerFrame(k, f) ==
    /\ sock[k] = "open"
    /\ f \in reqs[k]
    /\ reqs' = [reqs EXCEPT ![k] = @ \ {f}]
    /\ inbox' = [inbox EXCEPT ![k] = Append(@, f)]
    /\ UNCHANGED <<clientVars, lock, taskVars, readerVars, sock, allocs>>
    /\ UNCHANGED ghostVars
    /\ UNCHANGED <<other, codec, routed>>

PeerAnswer(k) == \E f \in reqs[k] : PeerAnswerFrame(k, f)

\* The robot closes the connection; unanswered requests are dropped.
PeerClose(k) ==
    /\ sock[k] = "open"
    /\ sock' = [sock EXCEPT ![k] = "peer_closed"]
    /\ reqs' = [reqs EXCEPT ![k] = {}]
    /\ UNCHANGED <<clientVars, lock, taskVars, readerVars, inbox, allocs>>
    /\ UNCHANGED ghostVars
    /\ UNCHANGED <<other, codec, routed>>

\* ---------------------------------------------- another category's port

\* RbkClient::new builds one RbkPortClient per category (client.rs:52-59),
\* each with a ClientState and a Mutex of its own (port_client.rs:41-47);
\* RbkClient::request hands a request to the Port Client of its category
\* (client.rs:109-140).  The steps of a second Port Client follow, one per
\* critical section of the same code, its sockets and tasks left out.

\* (mutant) one lock for all ports
OtherLockFreeGlobal == other.lock = 0 /\ lock = 0
\* self.state.lock().await on the other Port Client
OtherLockFree == other.lock = 0

\* do_request finds no connection and connect() stores one (88-92, 178-180)
OtherConnect ==
    /\ OtherLockFree
    /\ ~other.disposed /\ other.connection = 0
    /\ other' = [other EXCEPT !.connection = 1, !.disposed = FALSE]
    /\ UNCHANGED <<portVars, codec, routed>>

\* do_request allocates a flow number and starts the write, guard held (94-112)
OtherSend ==
    /\ OtherLockFree
    /\ ~other.disposed /\ other.connection = 1
    /\ other.flow_no_counter < MaxOtherAlloc
    /\ other' = [other EXCEPT !.flow_no_counter = NextFlowNo(@), !.lock = 1]
    /\ UNCHANGED <<portVars, codec, routed>>

\* write_all completes, the guard is dropped (124)
OtherWriteDone ==
    /\ other.lock = 1
    /\ other' = [other EXCEPT !.lock = 0]
    /\ UNCHANGED <<portVars, codec, routed>>

\* its reader deposits the response to the last request (216-220)
OtherDeposit ==
    /\ OtherLockFree
    /\ other.flow_no_counter > 0
    /\ ~MapHas(other.response_map, other.flow_no_counter)
    /\ other' = [other EXCEPT !.response_map =
                    MapInsert(@, [flow_no |-> other.flow_no_counter, body |-> 0])]
    /\ UNCHANGED <<portVars, codec, routed>>

\* the waiting request takes its response (131-150)
OtherTake ==
    /\ OtherLockFree
    /\ ~other.disposed
    /\ MapHas(other.response_map, other.flow_no_counter)
    /\ other' = [other EXCEPT !.response_map = MapRemove(@, other.flow_no_counter)]
    /\ UNCHANGED <<portVars, codec, routed>>

\* reset() after a timeout, or dispose() (234-245)
OtherReset ==
    /\ OtherLockFree
    /\ other' = [other EXCEPT !.response_map = {}, !.disposed = TRUE,
                              !.connection = 0]
    /\ UNCHANGED <<portVars, codec, routed>>

OtherStep ==
    \/ OtherConnect \/ OtherSend \/ OtherWriteDone
    \/ OtherDeposit \/ OtherTake \/ OtherReset

\* --------------------------------------------------- the client facade

\* RbkClient::request with a request of the category: the request goes to
\* RbkPortClient::request of the field the match selects.
ClientRequest(cat) ==
    /\ routed[Route(cat)].requests < MaxRouted
    /\ routed' = [routed EXCEPT ![Route(cat)].requests = @ + 1]
    /\ UNCHANGED <<portVars, other, codec>>

\* ------------------------------------------------ the codec in a reader

\* Frames the peer may send: flow and api numbers at the ends of the u16
\* range and holding the start mark (0x5A5A); bodies that are empty, ASCII,
\* hold the start mark and a two-byte character ("Z" then U+00E9), one of
\* 2^31 bytes and one of 2^32 bytes.
FlowInputs == {23130, 65535}
ApiNoInputs == {0, 65535}
BodyInputs ==
    {<<>>, Lit(<<97>>), Lit(<<START_MARK, 195, 169>>),
     <<Run(97, <<Limb \div 2, 0>>)>>, <<Run(97, <<Limb, 0>>)>>}
FrameInputs ==
    {Frame(f, a, b) : f \in FlowInputs, a \in ApiNoInputs, b \in BodyInputs}
FrameLists ==
    UNION {[1..n -> FrameInputs] : n \in 1..MaxFrames}

\* Bytes that may precede a frame on the stream: without the start mark
\* (zero, an invalid UTF-8 byte) and with it (alone, and between others).
GarbageInputs ==
    {Lit(<<0>>), Lit(<<255, 1>>), Lit(<<START_MARK>>), Lit(<<7, START_MARK, 7>>)}

\* The frames of FrameInputs with a body that fits a test buffer.
ShortFrames == {f \in FrameInputs : BigLess(BytesLen(f.body_str), Big(MaxPartial))}

\* Bytes of the stream already handed to the reader.
Fed ==
    BigSub(BytesLen(Cat(codec.junk, WireOf(codec.frames))), BytesLen(codec.wire))

\* The sender encodes its frames with encode_request, one after the other,
\* onto the stream.
CodecEncode ==
    /\ codec.phase = "encode"
    /\ codec' = [codec EXCEPT
                    !.wire = Cat(codec.junk, WireOf(codec.frames)),
                    !.phase = "feed"]
    /\ UNCHANGED <<portVars, other, routed>>

\* n bytes are appended to the decoder's buffer: all that is left of the
\* stream (test_encode_decode hands decode the whole output of
\* encode_request), or a shorter chunk, as a read of read_loop delivers it
\* (buf.extend_from_slice).
CodecFeed(n) ==
    /\ codec.phase = "feed"
    /\ codec.wire # <<>>
    /\ ~BigLess(BytesLen(codec.wire), n)
    /\ n = BytesLen(codec.wire) \/ BigLess(Fed, Big(MaxPartial))
    /\ codec' = [codec EXCEPT
                    !.wire = DropN(codec.wire, n),
                    !.buf = Cat(codec.buf, TakeN(codec.wire, n)),
                    !.at_once = (Fed = Big(0) /\ n = BytesLen(codec.wire)),
                    !.phase = "decode"]
    /\ UNCHANGED <<portVars, other, routed>>

\* (mutant) a decode loop that puts back the bytes a fruitless scan for the
\* start mark went over
CodecDecodeKeepsScanned ==
    /\ codec.phase = "decode"
    /\ LET r == decode(codec.dec, codec.buf)
       IN  codec' = [codec EXCEPT
                        !.dec = r.dec,
                        !.buf = IF ~r.dec.started /\ r.frame = NoDecoded
                                THEN codec.buf ELSE r.buf,
                        !.out = IF r.frame = NoDecoded THEN @ ELSE Append(@, r.frame),
                        !.phase = IF r.frame = NoDecoded THEN "feed" ELSE "decode"]
    /\ UNCHANGED <<portVars, other, routed>>

\* One turn of `while let Some(frame) = decoder.decode(&mut buf)`: a frame is
\* collected and decode is called again; None ends the loop and the reader
\* goes back to read.
CodecDecode ==
    /\ codec.phase = "decode"
    /\ LET r == decode(codec.dec, codec.buf)
       IN  codec' = [codec EXCEPT
                        !.dec = r.dec,
                        !.buf = r.buf,
                        !.out = IF r.frame = NoDecoded THEN @ ELSE Append(@, r.frame),
                        !.phase = IF r.frame = NoDecoded THEN "feed" ELSE "decode"]
    /\ UNCHANGED <<portVars, other, routed>>

\* ------------------------------------------------------- specifications

TaskStep(t) ==
    \/ ConnectOk(t) \/ ConnectFail(t) \/ Install(t) \/ Relock(t)
    \/ WriteOk(t) \/ WriteErr(t) \/ Register(t) \/ Wake(t) \/ Timeout(t)
    \/ Reset1(t) \/ Reset2(t)

ReaderStep(k) ==
    \/ ReaderTake(k) \/ ReaderRead(k) \/ ReaderEof(k)
    \/ ReaderDeposit(k) \/ ReaderPutBack(k)

Next ==
    \/ \E t \in Callers : allocs < MaxAlloc /\ \E a \in ApiInputs : ReqStart(t, a)
    \/ \E t \in Callers : Dispose(t)
    \/ \E t \in Tasks : TaskStep(t)
    \/ \E k \in Conns : ReaderStep(k)
    \/ \E k \in Conns : PeerAnswer(k) \/ PeerClose(k)

Spec == Init /\ [][Next]_vars

\* Wrap-around scenario: caller 1 issues a single request and its timer may
\* expire; caller 2 issues in-range requests back to back, up to one full
\* cycle of the flow-number space; every connect succeeds, the peer neither
\* fails nor closes, and it answers the very first request frame late: only
\* after the flow numbers have gone through a full cycle.
NextWrap ==
    \/ pc[1] = "idle" /\ ReqStart(1, 1000)
    \/ allocs < WrapAlloc /\ ReqStart(2, 1000)
    \/ \E t \in Tasks : ConnectOk(t) \/ Install(t) \/ Relock(t) \/ WriteOk(t)
    \/ \E t \in Tasks : Register(t) \/ Wake(t)
    \/ Timeout(1) \/ Reset1(1) \/ Reset2(1)
    \/ \E k \in Conns : ReaderTake(k) \/ ReaderRead(k) \/ ReaderDeposit(k) \/ ReaderPutBack(k)
    \/ \E k \in Conns : \E f \in reqs[k] :
          (f.body = 1 => allocs >= WrapAlloc) /\ PeerAnswerFrame(k, f)

SpecWrap == Init /\ [][NextWrap]_vars

\* Sequential scenario: one caller issues in-range requests one after
\* another; every connect succeeds; the peer answers every request frame it
\* receives and never closes; the timer of a request is long: it expires
\* only when nothing else can happen any more.
NextSeqQuiet ==
    \/ allocs < MaxAlloc /\ ReqStart(1, 1000)
    \/ ConnectOk(1) \/ Install(1) \/ Relock(1) \/ WriteOk(1)
    \/ Register(1) \/ Wake(1) \/ Reset1(1) \/ Reset2(1)
    \/ \E k \in Conns : ReaderTake(k) \/ ReaderRead(k) \/ ReaderDeposit(k) \/ ReaderPutBack(k)
    \/ \E k \in Conns : PeerAnswer(k)

NextSeq ==
    \/ NextSeqQuiet
    \/ ~(ENABLED NextSeqQuiet) /\ Timeout(1)

SpecSeq == Init /\ [][NextSeq]_vars

\* Disposal scenario: every caller issues one in-range request, the owner
\* calls dispose() once, at any moment; every connect succeeds and the peer
\* answers and never closes.  The timer of a waiting request (tokio's
\* timeout() around the wait loop) eventually fires: weak fairness.
NextDispose ==
    \/ \E t \in Callers : pc[t] = "idle" /\ ReqStart(t, 1000)
    \/ pc[Owner] = "idle" /\ Dispose(Owner)
    \/ \E t \in Tasks : ConnectOk(t) \/ Install(t) \/ Relock(t) \/ WriteOk(t)
    \/ \E t \in Tasks : Register(t) \/ Wake(t) \/ Timeout(t)
    \/ \E t \in Tasks : Reset1(t) \/ Reset2(t)
    \/ \E k \in Conns : ReaderTake(k) \/ ReaderRead(k) \/ ReaderDeposit(k) \/ ReaderPutBack(k)
    \/ \E k \in Conns : PeerAnswer(k)

SpecDispose ==
    Init /\ [][NextDispose]_vars /\ \A t \in Callers : WF_vars(Timeout(t))

\* Termination scenario: every caller issues one in-range request, the
\* owner disposes once, at any moment; a connect succeeds or fails, a write
\* succeeds, the peer answers or stays silent and never closes.  The runtime keeps
\* polling every task: a step of a task that stays possible is eventually
\* taken (the connect, the write and the shutdown complete, the lock is
\* granted once free, the timer of the wait loop fires).
TaskProgress(t) ==
    \/ ConnectOk(t) \/ ConnectFail(t) \/ Install(t) \/ Relock(t)
    \/ WriteOk(t) \/ Register(t) \/ Wake(t) \/ Timeout(t)
    \/ Reset1(t) \/ Reset2(t)

NextLive ==
    \/ \E t \in Callers : pc[t] = "idle" /\ ReqStart(t, 1000)
    \/ pc[Owner] = "idle" /\ Dispose(Owner)
    \/ \E t \in Tasks : ConnectOk(t) \/ Install(t) \/ Relock(t) \/ WriteOk(t)
    \/ \E t \in Callers : ConnectFail(t)
    \/ \E t \in Tasks : Register(t) \/ Wake(t) \/ Timeout(t)
    \/ \E t \in Tasks : Reset1(t) \/ Reset2(t)
    \/ \E k \in Conns : ReaderTake(k) \/ ReaderRead(k) \/ ReaderDeposit(k) \/ ReaderPutBack(k)
    \/ \E k \in Conns : PeerAnswer(k)

SpecLive ==
    Init /\ [][NextLive]_vars /\ \A t \in Tasks : WF_vars(TaskProgress(t))

\* Reconnection scenario (tests/integration_tests.rs, test_automatic_
\* reconnection): one caller issues in-range requests one after another;
\* every connect succeeds; the peer answers every frame and closes a
\* connection only while no request is in progress; the timer of a request
\* expires only when nothing else can happen any more.
NextReconnectQuiet ==
    \/ allocs < MaxAlloc /\ ReqStart(1, 1000)
    \/ ConnectOk(1) \/ Install(1) \/ Relock(1) \/ WriteOk(1) \/ WriteErr(1)
    \/ Register(1) \/ Wake(1) \/ Reset1(1) \/ Reset2(1)
    \/ \E k \in Conns : ReaderTake(k) \/ ReaderRead(k) \/ ReaderEof(k)
    \/ \E k \in Conns : ReaderDeposit(k) \/ ReaderPutBack(k)
    \/ \E k \in Conns : PeerAnswer(k)
    \/ \E k \in Conns : pc[1] \in {"idle", "done"} /\ PeerClose(k)

NextReconnect ==
    \/ NextReconnectQuiet
    \/ ~(ENABLED NextReconnectQuiet) /\ Timeout(1)

SpecReconnect == Init /\ [][NextReconnect]_vars

\* Two ports: the reconnection scenario on one Port Client while requests,
\* responses and resets go on at the Port Client of another category.
NextPorts ==
    \/ NextReconnect
    \/ OtherStep

SpecPorts == Init /\ [][NextPorts]_vars

\* Drop scenario: one caller issues in-range requests one after another
\* against a peer that answers and may close; the client is dropped, without
\* dispose(), at any moment at which no request is in progress.
NextDrop ==
    \/ pc[Owner] # "dropped" /\ allocs < MaxAlloc /\ ReqStart(1, 1000)
    \/ ConnectOk(1) \/ Install(1) \/ Relock(1) \/ WriteOk(1) \/ WriteErr(1)
    \/ Register(1) \/ Wake(1) \/ Timeout(1) \/ Reset1(1) \/ Reset2(1)
    \/ DropClient
    \/ \E k \in Conns : ReaderTake(k) \/ ReaderRead(k) \/ ReaderEof(k)
    \/ \E k \in Conns : ReaderDeposit(k) \/ ReaderPutBack(k)
    \/ \E k \in Conns : PeerAnswer(k) \/ PeerClose(k)

SpecDrop == Init /\ [][NextDrop]_vars

\* Three requesters: the two callers and the owner of the client each issue
\* one in-range request; every connect succeeds, the peer answers and never
\* closes; only the second caller's timer fires.  The owner's request is
\* followed until its connect() has returned.
NextThree ==
    \/ \E t \in Tasks : pc[t] = "idle" /\ ReqStart(t, 1000)
    \/ \E t \in Tasks : ConnectOk(t) \/ Install(t)
    \/ \E t \in Callers : Relock(t) \/ WriteOk(t) \/ Register(t) \/ Wake(t)
    \/ Timeout(2)
    \/ \E t \in Callers : Reset1(t) \/ Reset2(t)
    \/ \E k \in Conns : ReaderTake(k) \/ ReaderRead(k) \/ ReaderDeposit(k) \/ ReaderPutBack(k)
    \/ \E k \in Conns : PeerAnswer(k)

SpecThree == Init /\ [][NextThree]_vars

\* Typed requests of every category through one RbkClient.
NextRouting == \E cat \in Categories : ClientRequest(cat)

SpecRouting == Init /\ [][NextRouting]_vars

\* A decoder fed a stream of encoded frames in chunks of any size.
InitCodec ==
    /\ other = OtherInit
    /\ routed = ClientNew
    /\ codec \in {CodecStart(frames) : frames \in FrameLists}
    /\ PortInit

NextCodec ==
    \/ CodecEncode
    \/ \E n \in {Big(k) : k \in 1..MaxChunk} \cup {BytesLen(codec.wire)} : CodecFeed(n)
    \/ CodecDecode

SpecCodec == InitCodec /\ [][NextCodec]_vars

\* A decoder fed one encoded frame that follows bytes left over on the
\* stream, in chunks of any size.
InitResync ==
    /\ other = OtherInit
    /\ routed = ClientNew
    /\ codec \in {CodecStartAfter(g, <<f>>) : g \in GarbageInputs, f \in ShortFrames}
    /\ PortInit

SpecResync == InitResync /\ [][NextCodec]_vars

\* The same with a frame of any size behind the left-over bytes.
InitGarbage ==
    /\ other = OtherInit
    /\ routed = ClientNew
    /\ codec \in {CodecStartAfter(g, <<f>>) : g \in GarbageInputs, f \in FrameInputs}
    /\ PortInit

SpecGarbage == InitGarbage /\ [][NextCodec]_vars

TypeOK ==
    /\ other.connection \in 0..1 /\ other.lock \in 0..1
    /\ other.flow_no_counter \in 0..(FlowMod - 1) /\ other.disposed \in BOOLEAN
    /\ routed \in [ClientFields -> [port : 19204..19210, requests : 0..MaxRouted]]
    /\ codec.phase \in {"encode", "feed", "decode"} /\ codec.at_once \in BOOLEAN
    /\ codec.dec.started \in BOOLEAN
    /\ codec.dec.flow_no \in 0..65535 /\ codec.dec.api_no \in 0..65535
    /\ Len(codec.out) <= Len(codec.frames)
    /\ connection \in 0..MaxConn
    /\ flow_no_counter \in 0..(FlowMod - 1)
    /\ disposed \in BOOLEAN
    /\ lock \in {0} \cup Tasks
    /\ \A t \in Tasks : pc[t] \in {"idle", "connecting", "install", "relock", "writing",
                                   "wait_reg", "waiting", "reset", "shutdown", "done",
                                   "dropped"}
    /\ \A k \in Conns : rpc[k] \in {"off", "top", "reading", "deposit", "putback",
                                    "exited", "aborted"}
    /\ \A k \in Conns : sock[k] \in {"none", "open", "peer_closed", "closed"}
    /\ \A e1, e2 \in response_map : e1.flow_no = e2.flow_no => e1 = e2

\* ---------------------------------------------------------------- claims

\* The frame that answers request t, as the peer sends it.
OwnFrame(t) == [flow_no |-> flow_no[t], body |-> rid[t]]

C2_InFlightFlowNosDistinct ==
    \A t, u \in Tasks :
        (t # u /\ InFlight(t) /\ InFlight(u)) => flow_no[t] # flow_no[u]

\* C7: after a request timed out, a response frame sent later for its flow
\* number is never delivered to a different request that reuses the number:
\* once a request has returned Timeout (its reset included), no other
\* request returns Ok with the body of the frame that answers it.
C7_NoStaleMisdelivery ==
    [][\A t, u \in Tasks :
        (/\ t # u
         /\ pc[u] = "done" /\ result[u].kind = "Timeout"
         /\ pc[t] = "waiting" /\ pc'[t] = "done" /\ result'[t].kind = "Ok")
            => result'[t].frame.body # rid[u]]_vars


\* C3: recovery after reset.  A request issued on a Port Client that is
\* disposed or has no stored connection performs connect(); in particular
\* the request that follows a request that returned Timeout.
C3_RequestAfterTimeoutReconnects ==
    [][\A t \in Tasks :
        (/\ \E a \in ApiInputs : ReqStart(t, a)
         /\ disposed \/ connection = 0
         /\ \E u \in Tasks : pc[u] = "done" /\ result[u].kind = "Timeout")
            => pc'[t] = "connecting"]_vars

\* The peer has sent the response to request t, and nobody has consumed it.
Answered(t) ==
    /\ InFlight(t)
    /\ \/ OwnFrame(t) \in response_map
       \/ \E k \in Conns : \E i \in 1..Len(inbox[k]) : inbox[k][i] = OwnFrame(t)
       \/ \E k \in Conns : \E i \in 1..Len(rbuf[k]) : rbuf[k][i] = OwnFrame(t)

\* C4: against a peer that answers every request frame, with requests
\* issued one after another, there is no reachable state in which a request
\* that was answered can only end by timing out.
C4_AnsweredRequestNeverStuck ==
    \A t \in Tasks : Answered(t) => ENABLED NextSeqQuiet

\* C5: no lost wakeup.  A request never sits blocked on a notification that
\* has not been signalled while its response is already in the table.
C5_NoLostWakeup ==
    \A t \in Tasks :
        ~(pc[t] = "waiting" /\ ~notified[t] /\ OwnFrame(t) \in response_map)

\* An open connection the Port Client owns: stored in the state, or in the
\* hands of a running reader (taken out for a socket read).
Healthy(k) ==
    /\ sock[k] = "open"
    /\ connection = k \/ \E r \in Conns : Running(r) /\ held[r] = k

\* C6: single connection per port.  A request issued while a healthy
\* connection exists (also while its reader is blocked in a socket read)
\* reuses it instead of opening another one.
C6_HealthyConnectionReused ==
    [][\A t \in Tasks :
        (/\ \E a \in ApiInputs : ReqStart(t, a)
         /\ ~disposed
         /\ \E k \in Conns : Healthy(k))
            => pc'[t] # "connecting"]_vars

\* C8 (as claimed): a request whose flow number is never deposited while it
\* waits returns Timeout.
C8_NeverDepositedReturnsTimeout ==
    [][\A t \in Tasks :
        (pc[t] \in Wait /\ ~deposited[t] /\ pc'[t] \notin Wait)
            => result'[t].kind = "Timeout"]_vars

\* C8 (amended): a request whose flow number is never deposited while it
\* waits returns Timeout, or Disposed when the Port Client is reset
\* meanwhile; it never returns Ok, and it never hangs: every wait ends.
C8_NeverDepositedReturnsTimeoutOrDisposed ==
    /\ [][\A t \in Tasks :
            (pc[t] \in Wait /\ ~deposited[t] /\ pc'[t] \notin Wait)
                => result'[t].kind \in {"Timeout", "Disposed"}]_vars
    /\ \A t \in Callers : (pc[t] \in Wait) ~> (pc[t] \notin Wait)

\* C8 witness: a request whose frame the peer still holds unanswered has
\* returned Timeout from its wait.
C8_UnansweredTimedOut ==
    \E t \in Tasks : \E k \in Conns :
        /\ pc[t] = "reset" /\ result[t].kind = "Timeout"
        /\ OwnFrame(t) \in reqs[k]

\* C9: disposal.  If reset() runs while a request is in flight, that
\* request returns Disposed or Timeout.
C9_ResetInFlightGivesDisposedOrTimeout ==
    [][\A t \in Tasks :
        (pc[t] \in Wait /\ reset_seen[t] /\ pc'[t] \notin Wait)
            => result'[t].kind \in {"Disposed", "Timeout"}]_vars

\* C10: when dispose()/reset() returns (no connect() being in progress), no
\* background reader of the Port Client is running and none of its sockets
\* is open.
C10_ResetStopsReaderAndSocket ==
    [][\A t \in Tasks :
        (/\ Reset1(t) \/ Dispose(t) \/ Reset2(t)
         /\ pc'[t] = "done"
         /\ \A u \in Tasks : pc[u] \notin {"connecting", "install"})
            => \A k \in Conns :
                  /\ rpc'[k] \notin {"top", "reading", "deposit", "putback"}
                  /\ sock'[k] \notin {"open", "peer_closed"}]_vars

\* C11: dispose()/reset() is idempotent and always safe.  Called with no
\* stored connection it completes at once; whenever it returns, the pending
\* table is empty, disposed is set and no connection is stored; called in
\* that very state it changes nothing of the client, its readers or sockets.
C11_ResetIdempotent ==
    [][\A t \in Tasks :
        /\ (Dispose(t) \/ Reset1(t) \/ Reset2(t)) /\ pc'[t] = "done" =>
               (response_map' = {} /\ disposed' /\ connection' = 0)
        /\ (Dispose(t) \/ Reset1(t)) /\ connection = 0 => pc'[t] = "done"
        /\ (Dispose(t) \/ Reset1(t))
               /\ response_map = {} /\ disposed /\ connection = 0 =>
               UNCHANGED <<clientVars, readerVars, netVars>>]_vars

\* C11 witness: on a client that never had a connection, dispose() has
\* completed and after it the reset() of a request that found the client
\* disposed.
C11_ResetTwiceWithoutConnection ==
    /\ pc[Owner] = "done"
    /\ \E t \in Callers : pc[t] = "done" /\ result[t].kind = "Disposed"
    /\ \A k \in Conns : sock[k] = "none"
    /\ response_map = {} /\ disposed /\ connection = 0

\* C12: after the peer has closed the connection while no request was in
\* flight, a request on the same (not disposed) client opens a new
\* connection: with no socket open towards the peer it performs connect().
C12_RequestAfterPeerCloseReconnects ==
    [][\A t \in Callers :
        (/\ \E a \in ApiInputs : ReqStart(t, a)
         /\ ~disposed
         /\ \A k \in Conns : sock[k] # "open")
            => pc'[t] = "connecting"]_vars

\* C13: a request whose connect() fails returns the typed error and leaves
\* the Port Client as it was: neither the step that enters connect() nor the
\* failure itself changes the client state, the readers or the sockets, and
\* the request returns Err without running reset().
C13_ConnectFailureLeavesStateUnchanged ==
    [][\A t \in Tasks :
        /\ ((\E a \in ApiInputs : ReqStart(t, a)) /\ pc'[t] = "connecting") =>
               UNCHANGED <<clientVars, lock, readerVars, netVars>>
        /\ ConnectFail(t) =>
               /\ result'[t].kind = "Err" /\ pc'[t] = "done"
               /\ UNCHANGED <<clientVars, lock, readerVars, netVars>>]_vars

\* C13 witness: a request has returned the connect error on a client that
\* has allocated a flow number and has a socket open.
C13_ConnectFailedBesideLiveConnection ==
    \E t \in Tasks :
        /\ pc[t] = "done" /\ result[t].kind = "Err"
        /\ flow_no_counter = 1
        /\ \E k \in Conns : sock[k] = "open"

\* C14: a request rejected with BadApiNo does not reset the Port Client: the
\* steps it takes after the rejection leave connection, pending table and
\* disposed flag unchanged.
C14_BadApiNoDoesNotReset ==
    [][\A t \in Tasks :
        (result[t].kind = "BadApiNo" /\ pc'[t] # pc[t])
            => UNCHANGED <<connection, response_map, disposed>>]_vars

\* A step of do_request on behalf of a request whose api_no is outside
\* 0..65535.
OutOfRangeStep(t) ==
    \/ \E a \in ApiInputs : a \notin 0..65535 /\ ReqStart(t, a)
    \/ /\ api_no[t] \notin 0..65535
       /\ ConnectOk(t) \/ ConnectFail(t) \/ Install(t) \/ Relock(t)

\* C15 (as claimed): a request whose api_no is out of range returns
\* BadApiNo, never writes a frame and never waits for a response.
C15_OutOfRangeReturnsBadApiNo ==
    [][\A t \in Tasks :
        OutOfRangeStep(t) =>
            /\ pc'[t] \notin {"writing", "wait_reg", "waiting"}
            /\ \A k \in Conns : reqs'[k] \subseteq reqs[k]
            /\ result'[t] # NoResult => result'[t].kind = "BadApiNo"]_vars

\* C15 (amended): a request whose api_no is out of range returns BadApiNo,
\* unless the client is disposed (it returns Disposed) or connect() fails
\* (it returns the connect error), both of which are checked first; it
\* never writes a frame and never waits for a response.
C15_OutOfRangeNeverWrittenNorAwaited ==
    [][\A t \in Tasks :
        OutOfRangeStep(t) =>
            /\ pc'[t] \notin {"writing", "wait_reg", "waiting"}
            /\ \A k \in Conns : reqs'[k] \subseteq reqs[k]
            /\ result'[t] # NoResult =>
                 \/ result'[t].kind = "BadApiNo"
                 \/ result'[t].kind = "Disposed" /\ disposed
                 \/ result'[t].kind = "Err" /\ ConnectFail(t)]_vars

\* C15 witness: an out-of-range request has been rejected with BadApiNo on
\* a client whose connection is stored and open.
C15_RejectedOnLiveConnection ==
    \E t \in Tasks :
        /\ pc[t] = "reset" /\ result[t].kind = "BadApiNo"
        /\ connection # 0 /\ sock[connection] = "open"

\* C16: port independence.  No step changes the state of two Port Clients:
\* whatever happens at one port leaves the other port's connection, flow
\* counter, pending table and disposed flag as they are.  And no request
\* waits for the lock of another port: with its own lock free a request can
\* start, a reset can run, whoever holds the other port's lock.
C16_PortsIndependent ==
    /\ [][~(other' # other /\ portVars' # portVars)]_vars
    /\ [](\A t \in Callers :
            (pc[t] \in {"idle", "done"} /\ lock = 0 /\ allocs < MaxAlloc)
                => ENABLED ReqStart(t, 1000))
    /\ [](other.lock = 0 => ENABLED OtherReset)

\* C16 witness: requests on both ports are in the middle of their writes,
\* each holding the lock of its own port, the other port on its second
\* request.
C16_BothPortsWriting ==
    /\ pc[1] = "writing" /\ lock = 1
    /\ other.lock = 1 /\ other.flow_no_counter = 2
    /\ connection # 0 /\ ~disposed

\* C17: after the RbkClient is dropped without dispose() (and without any
\* reset before) no reader keeps running and no socket stays open; in
\* particular no reader is left blocked in a read on a socket that is still
\* open.
C17_NoReaderBlockedAfterDrop ==
    (pc[Owner] = "dropped" /\ ~disposed) =>
        \A k \in Conns :
            ~(rpc[k] = "reading" /\ sock[held[k]] = "open" /\ inbox[held[k]] = <<>>)

\* C18: lazy connection.  connect() is executed only on the first request
\* or on the first request after the connection was torn down: whenever a
\* connect() opens a socket, no socket opened earlier is still open.
C18_ConnectOnlyWithoutLiveConnection ==
    [][\A t \in Tasks :
        ConnectOk(t) => \A k \in Conns : sock[k] # "open"]_vars

\* The decode loop has run on a buffer holding the whole stream at least once.
DecodedOnce == codec.phase = "feed" \/ codec.out # <<>>

\* C19: round trip: when the bytes encode_request produced for one frame are
\* put into the buffer of a fresh decoder in one piece, decode yields
\* exactly that frame, with the same flow_no, api_no and body, and leaves
\* the buffer empty.
C19_RoundTrip ==
    (Len(codec.frames) = 1 /\ codec.at_once /\ DecodedOnce) =>
        (codec.out = codec.frames /\ codec.buf = <<>>)

\* The stream has been fed whole and the decode loop has run dry.
Drained == codec.frames # <<>> /\ codec.wire = <<>> /\ codec.phase = "feed"

\* C20: incremental decode: however the bytes of N encoded frames are split
\* into chunks, appending each chunk and calling decode until it returns
\* None yields the frames that one decode loop over all the bytes yields,
\* in the same order.
C20_IncrementalSameAsAtOnce ==
    Drained => codec.out = DecodeAll(NewDecoder, WireOf(codec.frames))

\* C21: resync: when garbage bytes, with or without the start mark 0x5A among
\* them, precede one encoded frame, the decoder yields exactly that frame
\* and no other.
C21_ResyncYieldsTheFrame ==
    (Drained /\ codec.junk # <<>>) => codec.out = codec.frames

\* C22: partial frame: once the 16 header bytes of a frame are in the buffer
\* and its body is not yet complete, decode has returned None, holds the
\* header's fields and has kept the body bytes received so far; once the
\* remaining bytes have been appended, decode has returned the frame, once,
\* and nothing is left over.
C22_PartialFrameKeptThenReturnedOnce ==
    (/\ Len(codec.frames) = 1 /\ codec.junk = <<>> /\ ~codec.at_once
     /\ codec.phase = "feed" /\ ~BigLess(Fed, Big(HEAD_SIZE))) =>
        LET f == codec.frames[1]
        IN  IF codec.wire # <<>>
            THEN /\ codec.out = <<>>
                 /\ codec.dec = [started |-> TRUE, flow_no |-> f.flow_no,
                                 api_no |-> f.api_no,
                                 body_size |-> BytesLen(f.body_str)]
                 /\ codec.buf = TakeN(f.body_str, BigSub(Fed, Big(HEAD_SIZE)))
            ELSE /\ codec.out = <<f>>
                 /\ codec.buf = <<>>
                 /\ codec.dec = NewDecoder

\* One frame has just been encoded onto an empty stream.
EncodedOne ==
    /\ codec.phase = "feed" /\ Fed = Big(0)
    /\ Len(codec.frames) = 1 /\ codec.junk = <<>>

\* The first 16 bytes of a byte string, one by one.
HeaderBytes(bs) == Expand(TakeN(bs, Big(16)))

CategoryPort(cat) ==
    CASE cat = "State" -> 19204
      [] cat = "Control" -> 19205
      [] cat = "Nav" -> 19206
      [] cat = "Config" -> 19207
      [] cat = "Kernel" -> 19208
      [] cat = "Misc" -> 19210

\* C24: routing: a request of a category is handed to the Port Client built
\* with that category's port and to no other Port Client, and the six
\* Port Clients have pairwise distinct ports.
C24_RoutedToOwnPortOnly ==
    /\ [][\A cat \in Categories : ClientRequest(cat) =>
            \A f \in ClientFields :
                IF routed[f].port = CategoryPort(cat)
                THEN routed'[f].requests = routed[f].requests + 1
                ELSE routed'[f] = routed[f]]_vars
    /\ [](\A f, g \in ClientFields : f # g => routed[f].port # routed[g].port)
    /\ [](\A cat \in Categories : \E f \in ClientFields : routed[f].port = CategoryPort(cat))

\* C24 witness: requests of all six categories have been sent, two of them
\* Misc requests, and each Port Client got exactly its own.
C24_EveryCategoryRouted ==
    /\ routed["misc_client"].requests = 2
    /\ \A f \in ClientFields \ {"misc_client"} : routed[f].requests = 1

\* C25: a request that observed a connect failure, a write failure or a
\* timeout returns only at the end of a reset of its Port Client: the step
\* that returns such a result is the last step of reset().
C25_FailureReturnsAfterReset ==
    [][\A t \in Callers :
        (/\ pc[t] # "done" /\ pc'[t] = "done"
         /\ result'[t].kind \in {"Err", "WriteError", "Timeout"})
            => (Reset1(t) \/ Reset2(t))]_vars

\* C26: when connect() succeeds, the state holds the new connection,
\* disposed is false, and the background reader spawned for that connection
\* is running: it has not exited.
C26_ConnectedWithRunningReader ==
    [][\A t \in Tasks :
        Install(t) =>
            /\ connection' = stream[t]
            /\ ~disposed'
            /\ rpc'[stream[t]] \notin {"off", "exited"}]_vars

\* C27: every request in its wait-for-response phase has written its frame
\* to a socket: do_request never skips the write and then waits.
C27_WaitingRequestHasWritten ==
    \A t \in Tasks : pc[t] \in Wait => wrote[t] # 0

\* C28: write and table mutual exclusion: a task writing a request frame
\* holds the state lock, so at most one task writes at a time; and every
\* insert into and removal from the pending table is done by a step that
\* takes the free lock, so none overlaps a write or another table access.
C28_WritesAndTableUnderLock ==
    /\ [](\A t \in Tasks : pc[t] = "writing" => lock = t)
    /\ [](\A t, u \in Tasks : (pc[t] = "writing" /\ pc[u] = "writing") => t = u)
    /\ [][response_map' # response_map => lock = 0]_vars

\* C28 witness: one caller is writing its frame while the other waits for
\* its response and a reader holds the decoded frame it is about to insert
\* for that waiter.
C28_WriterWithOthersQueued ==
    \E t, u \in Callers :
        /\ t # u
        /\ pc[t] = "writing" /\ lock = t
        /\ pc[u] = "waiting"
        /\ \E k \in Conns : rpc[k] = "deposit" /\ Head(rbuf[k]).flow_no = flow_no[u]

\* C29 (as stated): the lock is not held by a requester waiting for its
\* response, and a reader blocked in a socket read leaves it free; the lock
\* stays held across a step only by a task that is writing its frame.
C29_LockHeldOnlyForWrite ==
    /\ \A t \in Tasks : pc[t] \in Wait => lock # t
    /\ lock # 0 => pc[lock] = "writing"

\* C29 (amended): the lock is not held by a requester waiting for its
\* response, and a reader blocked in a socket read leaves it free; the lock
\* stays held across a step only by a task that is writing its frame or
\* that, inside reset(), awaits the shutdown of the socket.
C29_LockHeldOnlyForWriteOrShutdown ==
    /\ \A t \in Tasks : pc[t] \in Wait => lock # t
    /\ lock # 0 => pc[lock] \in {"writing", "shutdown"}

\* C29 witness: a reader is blocked in read with nothing to read, one caller
\* waits for its response, and the other caller has taken the lock and is
\* writing.
C29_WriteBesideBlockedReaderAndWaiter ==
    \E t, u \in Callers :
        /\ pc[t] = "writing" /\ lock = t
        /\ pc[u] = "waiting"
        /\ \E k \in Conns : rpc[k] = "reading" /\ inbox[held[k]] = <<>>

\* C30 (as stated): a woken waiter that finds no entry under its own flow
\* number removes nothing, returns nothing and goes back to waiting; a
\* waiter removes no entry but the one under its own flow number; and when
\* it returns Ok that entry is no longer in the table.
C30_NotifyThenRecheck ==
    [][\A t \in Tasks : Wake(t) =>
        /\ ~MapHas(response_map, flow_no[t]) =>
               /\ response_map' = response_map
               /\ result'[t] = result[t]
               /\ pc'[t] = "wait_reg"
        /\ \A e \in response_map : e \notin response_map' => e.flow_no = flow_no[t]
        /\ response_map' \subseteq response_map
        /\ result'[t].kind = "Ok" /\ pc'[t] # "wait_reg" =>
               ~MapHas(response_map', flow_no[t])]_vars

\* C30 (amended): the same, where the waiter that finds no entry goes back
\* to waiting only if the client is not disposed; woken on a disposed
\* client it removes nothing and returns Disposed.
C30_NotifyThenRecheckUnlessDisposed ==
    [][\A t \in Tasks : Wake(t) =>
        /\ (~MapHas(response_map, flow_no[t]) /\ ~disposed) =>
               /\ response_map' = response_map
               /\ result'[t] = result[t]
               /\ pc'[t] = "wait_reg"
        /\ disposed =>
               /\ response_map' = response_map
               /\ result'[t].kind = "Disposed"
        /\ \A e \in response_map : e \notin response_map' => e.flow_no = flow_no[t]
        /\ response_map' \subseteq response_map
        /\ result'[t].kind = "Ok" /\ pc'[t] # "wait_reg" =>
               ~MapHas(response_map', flow_no[t])]_vars

\* C30 witness: one waiter has returned Ok with its own frame and its entry
\* is gone, while the entry of the other, still waiting, is in the table.
C30_OwnEntryRemovedOtherKept ==
    \E t, u \in Callers :
        /\ pc[t] = "done" /\ result[t].kind = "Ok"
        /\ result[t].frame.flow_no = flow_no[t]
        /\ ~MapHas(response_map, flow_no[t])
        /\ pc[u] \in Wait /\ MapHas(response_map, flow_no[u])

\* C31: for every frame the background reader decodes, it inserts
\* (flow_no -> body) into the pending table, replacing an entry under the
\* same flow number, and signals every registered waiter; the frames of a read
\* are taken in the order they came off the stream, and the reader neither
\* puts the connection back nor reads again before all of them are handled.
C31_EveryDecodedFrameDeposited ==
    /\ [][\A k \in Conns : ReaderDeposit(k) =>
            /\ Head(rbuf[k]) \in response_map'
            /\ \A e \in response_map' :
                   e = Head(rbuf[k]) \/
                   (e \in response_map /\ e.flow_no # Head(rbuf[k]).flow_no)
            /\ \A e \in response_map :
                   e.flow_no # Head(rbuf[k]).flow_no => e \in response_map'
            /\ \A t \in Tasks : pc[t] = "waiting" => notified'[t]
            /\ rbuf'[k] = Tail(rbuf[k])]_vars
    /\ [][\A k \in Conns : ReaderRead(k) =>
            rbuf'[k] \o inbox'[held[k]] = inbox[held[k]]]_vars
    /\ [](\A k \in Conns : rpc[k] \in {"top", "reading", "putback"} => rbuf[k] = <<>>)

\* C31 witness: a read brought two frames; the first is in the table, both
\* waiters have been signalled, the second frame is next.
C31_FirstOfTwoFramesDeposited ==
    \E k \in Conns :
        /\ rpc[k] = "deposit" /\ Len(rbuf[k]) = 1
        /\ \E e \in response_map : e.flow_no # Head(rbuf[k]).flow_no
        /\ \A t \in Callers : pc[t] = "waiting" /\ notified[t]
        /\ inbox[held[k]] = <<>> /\ reqs[held[k]] = {}

C33_RequestResetFailsOthersInFlight ==
    [][\A t \in Tasks :
        (/\ pc[t] \in Wait /\ wrote[t] # 0 /\ reset_seen[t]
         /\ pc'[t] \notin Wait)
            => (result'[t].kind # "Ok"
                /\ result'[t].kind \in {"Disposed", "Timeout"})]_vars

\* The requests of the Port Client that are in flight at this moment.
InFlightTasks == {t \in Tasks : InFlight(t)}

\* C34: as long as fewer than 512 requests are simultaneously in flight on
\* the Port Client, the flow numbers of its in-flight requests are pairwise
\* distinct: a collision needs more requests in flight than the modulus.
C34_FewInFlightNoCollision ==
    Cardinality(InFlightTasks) < FlowMod
        => \A t \in InFlightTasks : \A u \in InFlightTasks \ {t} :
               flow_no[t] # flow_no[u]

\* C35: every call of request eventually returns, whatever the interleaving
\* of requesters, background reader and reset, and the state lock is never
\* held forever: a call in progress (dispose included) leads to its
\* return, and a held lock leads to a free lock.  Each task makes at most
\* one call here, so this is: from some moment on no call is in progress
\* and the lock is free.
C35_EveryRequestReturns ==
    <>[](lock = 0 /\ \A t \in Tasks : pc[t] \in {"idle", "done"})

\* C35 witness: both requests and the dispose have returned, one request
\* with Timeout, one with Disposed, and the lock is free.
C35_AllReturnedAfterContention ==
    /\ \A t \in Tasks : pc[t] = "done"
    /\ lock = 0
    /\ \E t, u \in Callers :
          result[t].kind = "Timeout" /\ result[u].kind = "Disposed"

\* C36: flow-number allocation.  The n-th allocation on a Port Client
\* returns n mod 512 (the previous counter plus one, modulo 512): every
\* allocated flow number is in 0..511, the first one is 1, the one after
\* 511 is 0, and two consecutive allocations are never equal.
C36_FlowNoIsAllocationCountMod512 ==
    /\ flow_no_counter \in 0..511
    /\ flow_no_counter = allocs % 512
    /\ allocs = 1 => flow_no_counter = 1
    /\ \A t \in Tasks : rid[t] > 0 =>
          /\ flow_no[t] \in 0..511
          /\ flow_no[t] = rid[t] % 512
          /\ rid[t] = 1 => flow_no[t] = 1
          /\ rid[t] = 512 => flow_no[t] = 0
          /\ \A u \in Tasks : rid[u] = rid[t] + 1 => flow_no[u] # flow_no[t]

\* C36 witness: the counter has wrapped: the first request, which got 1, is
\* still waiting, and the 512th allocation, the one after 511, returned 0.
C36_WrappedToZero ==
    \E t, u \in Tasks :
        /\ rid[t] = 512 /\ flow_no[t] = 0
        /\ rid[u] = 1 /\ flow_no[u] = 1 /\ InFlight(u)
        /\ allocs = 512 /\ flow_no_counter = 0

\* The whole stream the sender produces.
Stream == Cat(codec.junk, WireOf(codec.frames))

\* Where the first frame of the stream ends: the bytes before its start
\* mark, the 16 header bytes, and as many body bytes as the header's 32-bit
\* length field (bytes 4..7, big-endian) says.
FirstFrameEnd ==
    LET from_mark == SkipToMark(Stream)
        h == Expand(TakeN(from_mark, Big(HEAD_SIZE)))
        body_len == <<h[5] * 256 + h[6], h[7] * 256 + h[8]>>
    IN  BigAdd(BigSub(BytesLen(Stream), BytesLen(from_mark)),
               BigAdd(Big(HEAD_SIZE), body_len))

\* decode has just returned a frame.
FrameReturned == CodecDecode /\ Len(codec'.out) = Len(codec.out) + 1

\* C37: when decode returns a frame it has removed from the front of the
\* buffer exactly the bytes up to that frame's end (the bytes before its
\* start mark, the 16-byte header and body_len body bytes), every later
\* byte is still in the buffer, and the decoder is idle again (started =
\* false, body_size = -1).
C37_FrameReturnConsumesExactlyTheFrame ==
    [][FrameReturned =>
        /\ codec'.dec = NewDecoder
        /\ codec'.buf = DropN(codec.buf,
                              BigSub(BytesLen(codec.buf), BytesLen(codec'.buf)))
        /\ codec.out = <<>> =>
              /\ BigSub(Fed, BytesLen(codec'.buf)) = FirstFrameEnd
              /\ codec'.buf = DropN(TakeN(Stream, Fed), FirstFrameEnd)]_vars

\* decode is called with an idle decoder on a buffer without a start mark.
ScanFindsNoMark ==
    CodecDecode /\ ~codec.dec.started /\ SkipToMark(codec.buf) = <<>>

\* C38 (as claimed): if the decoder is idle and the buffer holds no start
\* mark, decode reports no frame and consumes nothing from the buffer.
C38_NoMarkConsumesNothing ==
    [][ScanFindsNoMark =>
        (codec'.out = codec.out /\ codec'.buf = codec.buf)]_vars

\* C38 (amended): if the decoder is idle and the buffer holds no start
\* mark, decode reports no frame, consumes the whole buffer and stays idle.
C38_NoMarkConsumesAll ==
    [][ScanFindsNoMark =>
        /\ codec'.out = codec.out
        /\ codec'.buf = <<>>
        /\ codec'.dec = NewDecoder /\ codec.dec = NewDecoder]_vars

\* C38 witness: bytes without a start mark were put into the buffer of an
\* idle decoder and decode has returned None: the buffer is empty, nothing
\* was decoded, and the frame is still to come.
C38_GarbageScannedAway ==
    /\ codec.phase = "feed" /\ codec.out = <<>> /\ codec.dec = NewDecoder
    /\ codec.buf = <<>>
    /\ BigLess(Big(0), Fed)
    /\ SkipToMark(TakeN(Stream, Fed)) = <<>>
    /\ codec.wire # <<>>

\* C39: garbage bytes without the byte 0x5A that precede a valid encoded
\* frame are discarded, and decode yields exactly that frame, with its
\* flow_no, api_no and body, whether the garbage and the frame arrive in one
\* chunk or in several; nothing is left in the buffer.
C39_MarklessGarbageDiscarded ==
    (Drained /\ codec.junk # <<>> /\ SkipToMark(codec.junk) = <<>>) =>
        (codec.out = codec.frames /\ codec.buf = <<>>)

\* The header of the first frame has been taken out of the buffer and the
\* frame has not been returned yet.
FirstHeaderConsumed ==
    /\ codec.frames # <<>> /\ codec.junk = <<>> /\ codec.out = <<>>
    /\ codec.phase # "encode"
    /\ ~BigLess(BigSub(Fed, BytesLen(codec.buf)), Big(HEAD_SIZE))

\* C40: for every header, one whose 32-bit body_len is 2^31 or larger
\* included, once the header has been consumed the decoder holds a pending
\* body size that is not negative and equals body_len, and it does not parse
\* header fields again from later bytes before it has returned that frame:
\* it keeps the header's flow_no and api_no and has consumed the 16 header
\* bytes only.
C40_PendingBodySizeNotNegative ==
    FirstHeaderConsumed =>
        LET f == codec.frames[1]
            h == Expand(TakeN(Stream, Big(HEAD_SIZE)))
            body_len == <<h[5] * 256 + h[6], h[7] * 256 + h[8]>>
        IN  /\ codec.dec.started
            /\ ~IsNegI32(codec.dec.body_size)
            /\ codec.dec.body_size = body_len
            /\ codec.dec.flow_no = f.flow_no /\ codec.dec.api_no = f.api_no
            /\ BigSub(Fed, BytesLen(codec.buf)) = Big(HEAD_SIZE)

====
